---- MODULE Spec2Model ----
(***************************************************************************)
(* Model of the expense bot of src/main.py: the /add conversation (step by *)
(* step and single-line intake), the expenses table, the monthly report    *)
(* and the two maintenance commands.                                       *)
(*                                                                         *)
(* Message texts are TLA+ strings; Python's str/float/int/strptime calls   *)
(* are operators over them.  Amounts are kept in hundredths (the inputs    *)
(* used here carry at most two fraction digits), NaN is kept apart.        *)
(***************************************************************************)
EXTENDS Integers, Sequences, FiniteSets, TLC

(***************************************************************************)
(* Bounds of the model.                                                    *)
(***************************************************************************)
MaxRecords == 2
MaxRows == 3

(***************************************************************************)
(* Python string helpers.                                                  *)
(***************************************************************************)
Char(s, i) == SubSeq(s, i, i)

IsSpace(c) == c \in {" ", "\t", "\n"}

Digits == {"0", "1", "2", "3", "4", "5", "6", "7", "8", "9"}

DigitVal(c) ==
    CASE c = "0" -> 0 [] c = "1" -> 1 [] c = "2" -> 2 [] c = "3" -> 3
      [] c = "4" -> 4 [] c = "5" -> 5 [] c = "6" -> 6 [] c = "7" -> 7
      [] c = "8" -> 8 [] c = "9" -> 9

\* code points of the characters a stored date can hold ('/' and the digits)
Ord(c) == IF c = "/" THEN 47 ELSE 48 + DigitVal(c)

RECURSIVE LStrip(_)
LStrip(s) ==
    IF Len(s) > 0 /\ IsSpace(Char(s, 1)) THEN LStrip(SubSeq(s, 2, Len(s))) ELSE s

RECURSIVE RStrip(_)
RStrip(s) ==
    IF Len(s) > 0 /\ IsSpace(Char(s, Len(s)))
    THEN RStrip(SubSeq(s, 1, Len(s) - 1)) ELSE s

\* str.strip()
Strip(s) == RStrip(LStrip(s))

\* str.startswith(p)
StartsWith(s, p) == Len(s) >= Len(p) /\ SubSeq(s, 1, Len(p)) = p

\* index of the first occurrence of character c in s, 0 when there is none
RECURSIVE FindFrom(_, _, _)
FindFrom(s, c, i) ==
    IF i > Len(s) THEN 0
    ELSE IF Char(s, i) = c THEN i ELSE FindFrom(s, c, i + 1)

\* str.split(c): the pieces between the separators, empty pieces kept
RECURSIVE Split(_, _)
Split(s, c) ==
    LET k == FindFrom(s, c, 1) IN
    IF k = 0 THEN <<s>>
    ELSE <<SubSeq(s, 1, k - 1)>> \o Split(SubSeq(s, k + 1, Len(s)), c)

AllDigits(s) == Len(s) > 0 /\ \A i \in 1..Len(s) : Char(s, i) \in Digits

RECURSIVE DecVal(_)
DecVal(s) ==
    IF Len(s) = 0 THEN 0
    ELSE 10 * DecVal(SubSeq(s, 1, Len(s) - 1)) + DigitVal(Char(s, Len(s)))

\* byte-wise string order, as SQLite's BINARY collation applies to "date < ?"
RECURSIVE StrLess(_, _)
StrLess(a, b) ==
    IF Len(b) = 0 THEN FALSE
    ELSE IF Len(a) = 0 THEN TRUE
    ELSE IF Ord(Char(a, 1)) < Ord(Char(b, 1)) THEN TRUE
    ELSE IF Ord(Char(a, 1)) > Ord(Char(b, 1)) THEN FALSE
    ELSE StrLess(SubSeq(a, 2, Len(a)), SubSeq(b, 2, Len(b)))

(***************************************************************************)
(* float(text): surrounding blanks are dropped, an optional sign, then     *)
(* "nan", "inf"/"infinity" or a decimal numeral.  kind is "err" when       *)
(* float() raises ValueError.                                              *)
(***************************************************************************)
Lower(c) ==
    CASE c = "N" -> "n" [] c = "A" -> "a" [] c = "I" -> "i" [] c = "F" -> "f"
      [] c = "T" -> "t" [] c = "Y" -> "y" [] OTHER -> c

RECURSIVE LowerStr(_)
LowerStr(s) ==
    IF Len(s) = 0 THEN "" ELSE Lower(Char(s, 1)) \o LowerStr(SubSeq(s, 2, Len(s)))

FloatErr == [kind |-> "err", cents |-> 0]
FloatNaN == [kind |-> "nan", cents |-> 0]

Pad2(f) == IF Len(f) = 0 THEN "00" ELSE IF Len(f) = 1 THEN f \o "0" ELSE SubSeq(f, 1, 2)

ParseUnsigned(b) ==
    LET k  == FindFrom(b, ".", 1)
        ip == IF k = 0 THEN b ELSE SubSeq(b, 1, k - 1)
        fp == IF k = 0 THEN "" ELSE SubSeq(b, k + 1, Len(b))
    IN  IF LowerStr(b) = "nan" THEN FloatNaN
        ELSE IF LowerStr(b) \in {"inf", "infinity"} THEN [kind |-> "inf", cents |-> 0]
        ELSE IF /\ (Len(ip) > 0 \/ Len(fp) > 0)
                /\ (Len(ip) = 0 \/ AllDigits(ip))
                /\ (Len(fp) = 0 \/ AllDigits(fp))
             THEN [kind |-> "num", cents |-> 100 * DecVal(ip) + DecVal(Pad2(fp))]
             ELSE FloatErr

ParseFloat(text) ==
    LET s    == Strip(text)
        neg  == Len(s) > 0 /\ Char(s, 1) = "-"
        sgn  == Len(s) > 0 /\ Char(s, 1) \in {"-", "+"}
        body == IF sgn THEN SubSeq(s, 2, Len(s)) ELSE s
        v    == ParseUnsigned(body)
    IN  IF v.kind = "num" /\ neg THEN [kind |-> "num", cents |-> 0 - v.cents]
        ELSE IF v.kind = "inf" /\ neg THEN [kind |-> "-inf", cents |-> 0]
        ELSE v

\* Python's "amt <= 0" on a float: False for NaN and for +inf
FloatLeqZero(v) ==
    \/ v.kind = "num" /\ v.cents <= 0
    \/ v.kind = "-inf"

(***************************************************************************)
(* int(text): blanks dropped, optional sign, decimal digits.               *)
(***************************************************************************)
ParseInt(text) ==
    LET s    == Strip(text)
        neg  == Len(s) > 0 /\ Char(s, 1) = "-"
        sgn  == Len(s) > 0 /\ Char(s, 1) \in {"-", "+"}
        body == IF sgn THEN SubSeq(s, 2, Len(s)) ELSE s
    IN  IF AllDigits(body)
        THEN [ok |-> TRUE, val |-> IF neg THEN 0 - DecVal(body) ELSE DecVal(body)]
        ELSE [ok |-> FALSE, val |-> 0]

(***************************************************************************)
(* The calendar of datetime.                                               *)
(***************************************************************************)
IsLeap(y) == (y % 4 = 0 /\ y % 100 # 0) \/ y % 400 = 0

DaysInMonth(m, y) ==
    IF m = 2 THEN (IF IsLeap(y) THEN 29 ELSE 28)
    ELSE IF m \in {4, 6, 9, 11} THEN 30 ELSE 31

\* datetime.strptime(text, "%d/%m/%y") succeeds: day of one or two digits
\* (1..31, "0" and "00" refused), month of one or two digits (1..12), year of
\* exactly two digits (00..68 -> 20xx, 69..99 -> 19xx), the day within the month
ValidDate(text) ==
    LET p == Split(text, "/") IN
    /\ Len(p) = 3
    /\ Len(p[1]) \in {1, 2} /\ AllDigits(p[1]) /\ DecVal(p[1]) \in 1..31
    /\ Len(p[2]) \in {1, 2} /\ AllDigits(p[2]) /\ DecVal(p[2]) \in 1..12
    /\ Len(p[3]) = 2 /\ AllDigits(p[3])
    /\ LET yy == DecVal(p[3])
           y  == IF yy < 69 THEN 2000 + yy ELSE 1900 + yy
       IN  DecVal(p[1]) <= DaysInMonth(DecVal(p[2]), y)

\* date - timedelta(days=1) and date + timedelta(days=1)
PrevDay(t) ==
    IF t.d > 1 THEN [t EXCEPT !.d = t.d - 1]
    ELSE IF t.m > 1 THEN [d |-> DaysInMonth(t.m - 1, t.y), m |-> t.m - 1, y |-> t.y]
    ELSE [d |-> 31, m |-> 12, y |-> t.y - 1]

NextDay(t) ==
    IF t.d < DaysInMonth(t.m, t.y) THEN [t EXCEPT !.d = t.d + 1]
    ELSE IF t.m < 12 THEN [d |-> 1, m |-> t.m + 1, y |-> t.y]
    ELSE [d |-> 1, m |-> 1, y |-> t.y + 1]

\* now - timedelta(days=n), n of either sign
RECURSIVE MinusDays(_, _)
MinusDays(t, n) ==
    IF n = 0 THEN t
    ELSE IF n > 0 THEN MinusDays(PrevDay(t), n - 1)
    ELSE MinusDays(NextDay(t), n + 1)

DigitChar(n) ==
    CASE n = 0 -> "0" [] n = 1 -> "1" [] n = 2 -> "2" [] n = 3 -> "3"
      [] n = 4 -> "4" [] n = 5 -> "5" [] n = 6 -> "6" [] n = 7 -> "7"
      [] n = 8 -> "8" [] n = 9 -> "9"

TwoDigits(n) == DigitChar((n \div 10) % 10) \o DigitChar(n % 10)

\* strftime("%d/%m/%y")
Strftime(t) == TwoDigits(t.d) \o "/" \o TwoDigits(t.m) \o "/" \o TwoDigits(t.y % 100)

(***************************************************************************)
(* Conversation states (main.py:42) and what ConversationHandler keeps     *)
(* for a user with no conversation under way.                              *)
(***************************************************************************)
MODE     == "MODE"
AMOUNT   == "AMOUNT"
CATEGORY == "CATEGORY"
PERSON   == "PERSON"
DATE     == "DATE"
LIST     == "LIST"
END      == "END"
NoConv   == "None"

Users == {"u1", "u2"}

\* the participants who write to the bot
Active == {"u1"}

(***************************************************************************)
(* The inputs the participants send.                                       *)
(***************************************************************************)
Long30 == "123456789012345678901234567890"
Long31 == "1234567890123456789012345678901"
Name20 == "abcdefghijklmnopqrst"
Name21 == "abcdefghijklmnopqrstu"

ModeTexts     == {"1", "2", "x", "12", "21"}
AmountTexts   == {"100", "50.00", "0", "-5", "abc", "nan"}
CategoryTexts == {"Food", Long31}
PersonTexts   == {"A", "B", Name21}
DateTexts     == {"31/05/24", "02/06/24", "31/02/24", "2/6/2024"}
ListTexts     == {"50.00, Food, A, 31/05/24",
                  "100,Food,B,02/06/24",
                  "50.00, Food, A",
                  "50.00, Food, A, 31/05/24, x",
                  "0, Food, A, 31/05/24",
                  "abc, Food, A, 31/05/24",
                  "50.00, Food, A, 31/02/24",
                  "50.00, " \o Long31 \o ", A, 31/05/24",
                  "50.00, Food, " \o Name21 \o ", 31/05/24",
                  "nan, Food, A, 31/05/24",
                  "50.00, , A, 31/05/24"}
PurgeArgs     == {"", "2", "0", "-1", "abc"}
Nows          == {[d |-> 3, m |-> 6, y |-> 2024]}

(***************************************************************************)
(* State.                                                                  *)
(*   conv      ConversationHandler's state per user (NoConv: none)         *)
(*   user_data context.user_data per user; a key that is not set is <<>>   *)
(*   store     the rows of table expenses, in id order                     *)
(*   last      the update handled last and what the bot sent back for it   *)
(***************************************************************************)
VARIABLES conv, user_data, store, last

vars == <<conv, user_data, store, last>>

EmptyData == [amount |-> <<>>, category |-> <<>>, person |-> <<>>]

Rat(n, d) == [num |-> n, den |-> d]

NoBalances == [p \in {} |-> Rat(0, 1)]

NoReport == [total |-> 0, per |-> Rat(0, 1), balances |-> NoBalances, lines |-> {}]

Sent(u, cmd, text, reply) ==
    [u |-> u, cmd |-> cmd, text |-> text, reply |-> reply,
     cutoff |-> "", render |-> FALSE, photo |-> FALSE, report |-> NoReport]

\* main(): the table is created if missing, no conversation is under way
Init ==
    /\ conv = [u \in Users |-> NoConv]
    /\ user_data = [u \in Users |-> EmptyData]
    /\ store = <<>>
    /\ last = Sent("u1", "", "", "none")

(***************************************************************************)
(* The expenses table.                                                     *)
(***************************************************************************)
RECURSIVE MaxId(_)
MaxId(rows) ==
    IF rows = <<>> THEN 0
    ELSE LET r == MaxId(Tail(rows)) IN IF Head(rows).id > r THEN Head(rows).id ELSE r

\* a float bound to a REAL column: SQLite stores NaN as NULL
Stored(amt) == IF amt.kind = "nan" THEN [null |-> TRUE, cents |-> 0]
               ELSE [null |-> FALSE, cents |-> amt.cents]

\* Insert with the category and person parameters bound in the wrong order
InsertSwapped(rows, amt, cat, per, date) ==
    Append(rows, [id |-> MaxId(rows) + 1, amount |-> Stored(amt),
                  category |-> per, person |-> cat, date |-> date])

\* INSERT INTO expenses (amount, category, person, date) VALUES (?, ?, ?, ?)
Insert(rows, amt, cat, per, date) ==
    Append(rows, [id |-> MaxId(rows) + 1, amount |-> Stored(amt),
                  category |-> cat, person |-> per, date |-> date])

\* DELETE FROM expenses WHERE date < cutoff
DeleteOlder(rows, cutoff) == SelectSeq(rows, LAMBDA r : ~StrLess(r.date, cutoff))

(***************************************************************************)
(* Commands outside the conversation.                                      *)
(***************************************************************************)
\* /start that restarts: drops the conversation and the collected fields
startResets(u) ==
    /\ last' = Sent(u, "start", "", "menu")
    /\ conv' = [conv EXCEPT ![u] = NoConv]
    /\ user_data' = [user_data EXCEPT ![u] = EmptyData]
    /\ UNCHANGED store

start(u) ==
    /\ last' = Sent(u, "start", "", "menu")
    /\ UNCHANGED <<conv, user_data, store>>

help_command(u) ==
    /\ last' = Sent(u, "help", "", "help")
    /\ UNCHANGED <<conv, user_data, store>>

(***************************************************************************)
(* The conversation.  ConversationHandler is built without allow_reentry:  *)
(* the entry point is tried only while the user has no conversation; in a  *)
(* state, that state's handlers are tried and then the fallbacks.          *)
(***************************************************************************)
EntryOpen(u) == conv[u] = NoConv

\* the state kept for what a handler returned: END drops the conversation
UpdateState(new_state) == IF new_state = END THEN NoConv ELSE new_state

\* add without context.user_data.clear()
addKeepsData(u) ==
    /\ EntryOpen(u)
    /\ conv' = [conv EXCEPT ![u] = MODE]
    /\ last' = Sent(u, "add", "", "ask_mode")
    /\ UNCHANGED <<user_data, store>>

add(u) ==
    /\ EntryOpen(u)
    /\ user_data' = [user_data EXCEPT ![u] = EmptyData]
    /\ conv' = [conv EXCEPT ![u] = MODE]
    /\ last' = Sent(u, "add", "", "ask_mode")
    /\ UNCHANGED store

\* comparing the whole choice instead of choice.startswith
ModeChoiceExact(text) ==
    LET choice == Strip(text) IN
    IF choice = "1" THEN AMOUNT
    ELSE IF choice = "2" THEN LIST
    ELSE MODE

ModeChoice(text) ==
    LET choice == Strip(text) IN
    IF StartsWith(choice, "1") THEN AMOUNT
    ELSE IF StartsWith(choice, "2") THEN LIST
    ELSE MODE

process_mode(u, text) ==
    /\ conv[u] = MODE
    /\ LET next == ModeChoice(text) IN
       /\ conv' = [conv EXCEPT ![u] = next]
       /\ last' = Sent(u, "", text,
                       CASE next = AMOUNT -> "ask_amount"
                         [] next = LIST   -> "ask_list"
                         [] OTHER         -> "bad_mode")
    /\ UNCHANGED <<user_data, store>>

\* float() returned and the value is not <= 0
AmountOk(amt) == amt.kind # "err" /\ ~FloatLeqZero(amt)

\* one dictionary of collected fields for all users instead of user_data
process_amountShared(u, text) ==
    /\ conv[u] = AMOUNT
    /\ LET amt == ParseFloat(text) IN
       IF AmountOk(amt)
       THEN /\ user_data' = [v \in Users |-> [user_data[v] EXCEPT !.amount = <<amt>>]]
            /\ conv' = [conv EXCEPT ![u] = CATEGORY]
            /\ last' = Sent(u, "", text, "ask_category")
       ELSE /\ last' = Sent(u, "", text, "bad_amount")
            /\ UNCHANGED <<conv, user_data>>
    /\ UNCHANGED store

process_amount(u, text) ==
    /\ conv[u] = AMOUNT
    /\ LET amt == ParseFloat(text) IN
       IF AmountOk(amt)
       THEN /\ user_data' = [user_data EXCEPT ![u].amount = <<amt>>]
            /\ conv' = [conv EXCEPT ![u] = CATEGORY]
            /\ last' = Sent(u, "", text, "ask_category")
       ELSE /\ last' = Sent(u, "", text, "bad_amount")
            /\ UNCHANGED <<conv, user_data>>
    /\ UNCHANGED store

CategoryOk(cat) == ~(Len(cat) > 30)

process_category(u, text) ==
    /\ conv[u] = CATEGORY
    /\ LET cat == Strip(text) IN
       IF CategoryOk(cat)
       THEN /\ user_data' = [user_data EXCEPT ![u].category = <<cat>>]
            /\ conv' = [conv EXCEPT ![u] = PERSON]
            /\ last' = Sent(u, "", text, "ask_person")
       ELSE /\ last' = Sent(u, "", text, "category_too_long")
            /\ UNCHANGED <<conv, user_data>>
    /\ UNCHANGED store

PersonOk(per) == ~(Len(per) > 20)

process_person(u, text) ==
    /\ conv[u] = PERSON
    /\ LET per == Strip(text) IN
       IF PersonOk(per)
       THEN /\ user_data' = [user_data EXCEPT ![u].person = <<per>>]
            /\ conv' = [conv EXCEPT ![u] = DATE]
            /\ last' = Sent(u, "", text, "ask_date")
       ELSE /\ last' = Sent(u, "", text, "name_too_long")
            /\ UNCHANGED <<conv, user_data>>
    /\ UNCHANGED store

\* every key the INSERT of process_date reads is set (no KeyError)
DataComplete(d) == d.amount # <<>> /\ d.category # <<>> /\ d.person # <<>>

\* a failing INSERT caught and answered by ending the conversation
process_dateAbandons(u, text, dbOk) ==
    /\ conv[u] = DATE
    /\ LET date_str == Strip(text)
           d        == user_data[u]
       IN  IF ~ValidDate(date_str)
           THEN /\ last' = Sent(u, "", text, "bad_date")
                /\ UNCHANGED <<conv, store>>
           ELSE IF dbOk /\ DataComplete(d)
           THEN /\ Len(store) < MaxRecords
                /\ store' = Insert(store, d.amount[1], d.category[1], d.person[1], date_str)
                /\ conv' = [conv EXCEPT ![u] = UpdateState(END)]
                /\ last' = Sent(u, "", text, "saved")
           ELSE /\ last' = Sent(u, "", text, "error")
                /\ conv' = [conv EXCEPT ![u] = UpdateState(END)]
                /\ UNCHANGED store
    /\ UNCHANGED user_data

\* dbOk: the INSERT and the commit go through.  A failing INSERT, or a key
\* missing from user_data, raises past "except ValueError": the dispatcher
\* calls error_handler and the conversation state is not updated.
process_date(u, text, dbOk) ==
    /\ conv[u] = DATE
    /\ LET date_str == Strip(text)
           d        == user_data[u]
       IN  IF ~ValidDate(date_str)
           THEN /\ last' = Sent(u, "", text, "bad_date")
                /\ UNCHANGED <<conv, store>>
           ELSE IF dbOk /\ DataComplete(d)
           THEN /\ Len(store) < MaxRecords
                /\ store' = Insert(store, d.amount[1], d.category[1], d.person[1], date_str)
                /\ conv' = [conv EXCEPT ![u] = UpdateState(END)]
                /\ last' = Sent(u, "", text, "saved")
           ELSE /\ last' = Sent(u, "", text, "error")
                /\ UNCHANGED <<conv, store>>
    /\ UNCHANGED user_data

\* the unpacking "amount, category, person, date_str = parts", float() and
\* strptime() of process_list all succeed and amt > 0
ListOk(parts) ==
    /\ Len(parts) = 4
    /\ AmountOk(ParseFloat(parts[1]))
    /\ ValidDate(parts[4])

\* process_list without the p.strip() of each field
process_listNoStrip(u, text, dbOk) ==
    /\ conv[u] = LIST
    /\ LET parts == Split(text, ",")
       IN
       IF ListOk(parts) /\ dbOk
       THEN /\ Len(store) < MaxRecords
            /\ store' = Insert(store, ParseFloat(parts[1]), parts[2], parts[3], parts[4])
            /\ conv' = [conv EXCEPT ![u] = UpdateState(END)]
            /\ last' = Sent(u, "", text, "saved_list")
       ELSE /\ last' = Sent(u, "", text, "bad_list")
            /\ UNCHANGED <<conv, store>>
    /\ UNCHANGED user_data

process_list(u, text, dbOk) ==
    /\ conv[u] = LIST
    /\ LET raw   == Split(text, ",")
           parts == [i \in 1..Len(raw) |-> Strip(raw[i])]
       IN
       IF ListOk(parts) /\ dbOk
       THEN /\ Len(store) < MaxRecords
            /\ store' = Insert(store, ParseFloat(parts[1]), parts[2], parts[3], parts[4])
            /\ conv' = [conv EXCEPT ![u] = UpdateState(END)]
            /\ last' = Sent(u, "", text, "saved_list")
       ELSE /\ last' = Sent(u, "", text, "bad_list")
            /\ UNCHANGED <<conv, store>>
    /\ UNCHANGED user_data

\* cancel without "return ConversationHandler.END": the state is kept
cancelKeepsState(u) ==
    /\ conv[u] # NoConv
    /\ last' = Sent(u, "cancel", "", "cancelled")
    /\ UNCHANGED <<conv, user_data, store>>

\* /cancel: a handler of AMOUNT..LIST and the fallback of MODE
cancel(u) ==
    /\ conv[u] # NoConv
    /\ conv' = [conv EXCEPT ![u] = UpdateState(END)]
    /\ last' = Sent(u, "cancel", "", "cancelled")
    /\ UNCHANGED <<user_data, store>>

\* updates no handler of the dispatcher takes: plain text or /cancel without
\* a conversation, /add within one
no_handler(u, cmd, text) ==
    /\ \/ cmd \in {"", "cancel"} /\ conv[u] = NoConv
       \/ cmd = "add" /\ ~EntryOpen(u)
    /\ last' = Sent(u, cmd, text, "none")
    /\ UNCHANGED <<conv, user_data, store>>

(***************************************************************************)
(* The report.                                                             *)
(***************************************************************************)
\* Series.sum(): NaN (a NULL amount) is skipped
RECURSIVE SumAmounts(_)
SumAmounts(rows) ==
    IF rows = <<>> THEN 0
    ELSE (IF Head(rows).amount.null THEN 0 ELSE Head(rows).amount.cents)
         + SumAmounts(Tail(rows))

\* the split fixed at two people
NUniqueTwo(rows) == 2

\* df['person'].nunique()
NUnique(rows) == Cardinality({rows[i].person : i \in 1..Len(rows)})

\* total // n: the share cut down to a whole number of hundredths
DivideFloor(total, n) == Rat(total \div n, 1)

\* total / n
Divide(total, n) == Rat(total, n)

\* groupby('person')['amount'].sum() - per
Balances(rows, per) ==
    [p \in {rows[i].person : i \in 1..Len(rows)} |->
        Rat(SumAmounts(SelectSeq(rows, LAMBDA r : r.person = p)) * per.den - per.num,
            per.den)]

\* v >= 0 in place of v > 0
StatusZeroPays(v) == IF v.num >= 0 THEN "deve pagar" ELSE "deve receber"

\* the wording of the two sides exchanged
StatusInverted(v) == IF v.num > 0 THEN "deve receber" ELSE "deve pagar"

Status(v) == IF v.num > 0 THEN "deve pagar" ELSE "deve receber"

AbsRat(v) == IF v.num < 0 THEN Rat(0 - v.num, v.den) ELSE v

ReportOf(rows) ==
    LET total    == SumAmounts(rows)
        per      == Divide(total, NUnique(rows))
        balances == Balances(rows, per)
    IN  [total |-> total, per |-> per, balances |-> balances,
         lines |-> {[person |-> p, amount |-> AbsRat(balances[p]),
                     status |-> Status(balances[p])] : p \in DOMAIN balances}]

\* the empty check left out
IsEmptyNever(rows) == FALSE

\* df.empty
IsEmpty(rows) == rows = <<>>

\* a report that also archives (empties) the table once it is sent
close_monthArchives(u, renderOk) ==
    /\ IF IsEmpty(store)
       THEN last' = Sent(u, "close_month", "", "no_expenses")
       ELSE IF renderOk
       THEN last' = [Sent(u, "close_month", "", "report") EXCEPT
                        !.render = TRUE, !.photo = TRUE, !.report = ReportOf(store)]
       ELSE last' = [Sent(u, "close_month", "", "report_error") EXCEPT !.render = TRUE]
    /\ store' = IF renderOk THEN <<>> ELSE store
    /\ UNCHANGED <<conv, user_data>>

\* renderOk: drawing and sending the chart go through
close_month(u, renderOk) ==
    /\ IF IsEmpty(store)
       THEN last' = Sent(u, "close_month", "", "no_expenses")
       ELSE IF renderOk
       THEN last' = [Sent(u, "close_month", "", "report") EXCEPT
                        !.render = TRUE, !.photo = TRUE, !.report = ReportOf(store)]
       ELSE last' = [Sent(u, "close_month", "", "report_error") EXCEPT !.render = TRUE]
    /\ UNCHANGED <<conv, user_data, store>>

(***************************************************************************)
(* Maintenance.                                                            *)
(***************************************************************************)
clear_all(u) ==
    /\ store' = <<>>
    /\ last' = Sent(u, "clear_all", "", "cleared")
    /\ UNCHANGED <<conv, user_data>>

\* context.args: the words after the command
Args(text) == SelectSeq(Split(text, " "), LAMBDA w : w # "")

\* int(context.args[0]) raises on no argument and on a non-integer
PurgeDays(text) ==
    IF Args(text) = <<>> THEN [ok |-> FALSE, val |-> 0] ELSE ParseInt(Args(text)[1])

Cutoff(now, dias) == Strftime(MinusDays(now, dias))

cleanup_old(u, text, now) ==
    /\ LET dias == PurgeDays(text) IN
       IF dias.ok
       THEN LET cutoff == Cutoff(now, dias.val) IN
            /\ store' = DeleteOlder(store, cutoff)
            /\ last' = [Sent(u, "cleanup_old", text, "purged") EXCEPT !.cutoff = cutoff]
       ELSE /\ last' = Sent(u, "cleanup_old", text, "usage")
            /\ UNCHANGED store
    /\ UNCHANGED <<conv, user_data>>

Next ==
    \E u \in Active :
        \/ start(u)
        \/ help_command(u)
        \/ add(u)
        \/ \E t \in ModeTexts : process_mode(u, t)
        \/ \E t \in AmountTexts : process_amount(u, t)
        \/ \E t \in CategoryTexts : process_category(u, t)
        \/ \E t \in PersonTexts : process_person(u, t)
        \/ \E t \in DateTexts, dbOk \in BOOLEAN : process_date(u, t, dbOk)
        \/ \E t \in ListTexts, dbOk \in BOOLEAN : process_list(u, t, dbOk)
        \/ cancel(u)
        \/ no_handler(u, "", "1")
        \/ no_handler(u, "add", "")
        \/ no_handler(u, "cancel", "")
        \/ \E renderOk \in BOOLEAN : close_month(u, renderOk)
        \/ clear_all(u)
        \/ \E t \in PurgeArgs, now \in Nows : cleanup_old(u, t, now)

Spec == Init /\ [][Next]_vars

(***************************************************************************)
(* The report over tables of up to MaxRows rows: every table that intake   *)
(* can build from the entries below, then /close_month by either user.     *)
(***************************************************************************)
SettleEntries ==
    {<<a, "Food", p, "31/05/24">> : a \in {"100", "50.00", "nan"}, p \in {"A", "B", "C"}}

RECURSIVE StoresOfLen(_)
StoresOfLen(n) ==
    IF n = 0 THEN {<<>>}
    ELSE {Insert(rows, ParseFloat(e[1]), e[2], e[3], e[4]) :
              rows \in StoresOfLen(n - 1), e \in SettleEntries}

InitSettle ==
    /\ conv = [u \in Users |-> NoConv]
    /\ user_data = [u \in Users |-> EmptyData]
    /\ store \in UNION {StoresOfLen(n) : n \in 0..MaxRows}
    /\ last = Sent("u1", "", "", "none")

NextSettle == \E u \in Users, renderOk \in BOOLEAN : close_month(u, renderOk)

SettleSpec == InitSettle /\ [][NextSettle]_vars

(***************************************************************************)
(* The two intake paths side by side: u1 registers step by step, u2 sends  *)
(* the same values as one line "amount, category, person, date".           *)
(***************************************************************************)
EquivAmounts    == {"50.00", "100"}
EquivCategories == {"Food", "Food,bar"}
EquivPersons    == {"A", "B"}
EquivDates      == {"31/05/24"}
Seps            == {",", ", "}

Line(a, c, p, d, sep) == a \o sep \o c \o sep \o p \o sep \o d

EquivLines ==
    {Line(a, c, p, d, sep) : a \in EquivAmounts, c \in EquivCategories,
                             p \in EquivPersons, d \in EquivDates, sep \in Seps}

NextEquiv ==
    \/ \E u \in Users : add(u)
    \/ process_mode("u1", "1")
    \/ process_mode("u2", "2")
    \/ \E t \in EquivAmounts : process_amount("u1", t)
    \/ \E t \in EquivCategories : process_category("u1", t)
    \/ \E t \in EquivPersons : process_person("u1", t)
    \/ \E t \in EquivDates : process_date("u1", t, TRUE)
    \/ \E t \in EquivLines : process_list("u2", t, TRUE)

EquivSpec == Init /\ [][NextEquiv]_vars

(***************************************************************************)
(* Two participants writing at the same time, each with values of its own. *)
(* The dispatcher handles one update at a time, in any order of arrival.   *)
(***************************************************************************)
OwnAmount   == [u \in Users |-> IF u = "u1" THEN "100" ELSE "50.00"]
OwnCategory == [u \in Users |-> IF u = "u1" THEN "Food" ELSE "Rent"]
OwnPerson   == [u \in Users |-> IF u = "u1" THEN "A" ELSE "B"]
OwnDate     == [u \in Users |-> IF u = "u1" THEN "31/05/24" ELSE "02/06/24"]
OwnLine     == [u \in Users |->
                   Line(OwnAmount[u], OwnCategory[u], OwnPerson[u], OwnDate[u], ", ")]

NextPair ==
    \E u \in Users :
        \/ add(u)
        \/ \E t \in {"1", "2"} : process_mode(u, t)
        \/ process_amount(u, OwnAmount[u])
        \/ process_category(u, OwnCategory[u])
        \/ process_person(u, OwnPerson[u])
        \/ process_date(u, OwnDate[u], TRUE)
        \/ process_list(u, OwnLine[u], TRUE)
        \/ cancel(u)

PairSpec == Init /\ [][NextPair]_vars
(***************************************************************************)
(* Properties.                                                             *)
(***************************************************************************)
\* what the participant u sent in the step just taken
SentText(u) == last'.u = u /\ last'.cmd = ""

Stays(u) == conv'[u] = conv[u] /\ user_data' = user_data /\ store' = store

C1_AmountOf == [t \in {"100", "50.00"} |-> IF t = "100" THEN 10000 ELSE 5000]

C1_Steps(u) ==
    LET t == last'.text IN
    SentText(u) =>
      /\ (conv[u] = MODE /\ t = "1") =>
            conv'[u] = AMOUNT /\ store' = store
      /\ (conv[u] = AMOUNT /\ t \in DOMAIN C1_AmountOf) =>
            /\ conv'[u] = CATEGORY
            /\ user_data'[u] = [user_data[u] EXCEPT
                                   !.amount = <<[kind |-> "num", cents |-> C1_AmountOf[t]]>>]
            /\ store' = store
      /\ (conv[u] = CATEGORY /\ Len(t) <= 30) =>
            /\ conv'[u] = PERSON
            /\ user_data'[u] = [user_data[u] EXCEPT !.category = <<t>>]
            /\ store' = store
      /\ (conv[u] = PERSON /\ Len(t) <= 20) =>
            /\ conv'[u] = DATE
            /\ user_data'[u] = [user_data[u] EXCEPT !.person = <<t>>]
            /\ store' = store
      /\ (/\ conv[u] = DATE /\ t \in {"31/05/24", "02/06/24"}
          /\ last'.reply # "error"
          /\ user_data[u].amount[1].kind = "num") =>
            /\ Len(store') = Len(store) + 1
            /\ SubSeq(store', 1, Len(store)) = store
            /\ LET r == store'[Len(store')] IN
                 /\ r.amount = [null |-> FALSE, cents |-> user_data[u].amount[1].cents]
                 /\ r.amount.cents > 0
                 /\ r.category = user_data[u].category[1]
                 /\ r.person = user_data[u].person[1]
                 /\ r.date = t
                 /\ \A i \in 1..Len(store) : store[i].id # r.id
            /\ conv'[u] = NoConv
            /\ last'.reply = "saved"
      /\ conv[u] = NoConv => UNCHANGED <<conv, user_data, store>>

\* C1: step-by-step intake ("1", a positive amount, a category of at most 30
\* characters, a person of at most 20, a valid date) moves MODE -> AMOUNT ->
\* CATEGORY -> PERSON -> DATE keeping each value entered, and the valid date
\* appends exactly one row holding those four values, leaves every other row
\* as it was and ends the conversation; text sent after that changes nothing.
C1_StepByStepInsertsOne == [][\A u \in Users : C1_Steps(u)]_vars

C1_Witness ==
    /\ last.reply = "saved" /\ last.text = "02/06/24"
    /\ conv[last.u] = NoConv
    /\ Len(store) = 2
    /\ store[2].amount = [null |-> FALSE, cents |-> 10000]
    /\ store[2].person = "B"

\* C2 (as claimed): /add sent while a conversation is under way restarts it
\* at MODE with the collected fields dropped, and inserts nothing.
C2_ReentryRestarts ==
    [][\A u \in Users :
          (last'.u = u /\ last'.cmd = "add" /\ conv[u] # NoConv) =>
              /\ conv'[u] = MODE
              /\ user_data'[u] = EmptyData
              /\ store' = store]_vars

\* C3: /cancel is taken in every state MODE .. LIST, ends the conversation
\* and inserts nothing; text sent while no conversation is under way moves
\* no state, changes no collected field and inserts nothing.
C3_CancelEndsSession ==
    /\ [](\A u \in Active : conv[u] # NoConv => ENABLED cancel(u))
    /\ [][\A u \in Users :
            /\ (last'.u = u /\ last'.cmd = "cancel" /\ conv[u] # NoConv) =>
                  /\ conv'[u] = NoConv
                  /\ store' = store
                  /\ last'.reply = "cancelled"
            /\ (SentText(u) /\ conv[u] = NoConv) =>
                  /\ UNCHANGED <<conv, user_data, store>>
                  /\ last'.reply = "none"]_vars

C3_Witness ==
    /\ last.cmd = "cancel" /\ last.reply = "cancelled"
    /\ conv[last.u] = NoConv
    /\ user_data[last.u].person # <<>>
    /\ store = <<>>

\* C4 (as claimed): a line sent in LIST inserts a row only when it has four
\* fields, an amount > 0, a category of at most 30 characters, a person of
\* at most 20 characters and a valid date; otherwise the state stays LIST.
C4_ListAllOrNothing ==
    [][\A u \in Users :
          (SentText(u) /\ conv[u] = LIST) =>
              IF store' # store
              THEN /\ Len(store') = Len(store) + 1
                   /\ LET r == store'[Len(store')] IN
                        /\ ~r.amount.null /\ r.amount.cents > 0
                        /\ Len(r.category) <= 30
                        /\ Len(r.person) <= 20
                        /\ r.date \in {"31/05/24", "02/06/24"}
              ELSE conv'[u] = LIST]_vars

\* C5 (as claimed): a purge whose cutoff is "01/06/24" deletes the rows dated
\* "31/05/24" and keeps the rows dated "02/06/24".
C5_PurgeExample ==
    [][(last'.cmd = "cleanup_old" /\ last'.cutoff = "01/06/24") =>
          /\ \A i \in 1..Len(store') : store'[i].date # "31/05/24"
          /\ \A i \in 1..Len(store) :
                store[i].date = "02/06/24" =>
                    \E j \in 1..Len(store') : store'[j] = store[i]]_vars

\* C6 (as claimed): /cleanup_old with no argument, a non-integer, zero or a
\* negative integer answers with the usage line and deletes nothing.
C6_PurgeNeedsPositive ==
    [][(last'.cmd = "cleanup_old" /\ last'.text \in {"", "abc", "0", "-1"}) =>
          (last'.reply = "usage" /\ store' = store)]_vars

PersonsOf(rows) == {rows[i].person : i \in 1..Len(rows)}

RECURSIVE SumOfRows(_, _)
SumOfRows(rows, I) ==
    IF I = {} THEN 0
    ELSE LET i == CHOOSE j \in I : TRUE IN
         (IF rows[i].amount.null THEN 0 ELSE rows[i].amount.cents)
         + SumOfRows(rows, I \ {i})

TotalOf(rows) == SumOfRows(rows, 1..Len(rows))

PersonTotal(rows, p) == SumOfRows(rows, {i \in 1..Len(rows) : rows[i].person = p})

AmountsBy(rows) == {<<rows[i].amount.cents, rows[i].person>> : i \in 1..Len(rows)}

\* C7: the report of a table that is not empty has total = the sum of the
\* amounts, per capita = total / (number of distinct persons) and, for each
\* person of the table, balance = that person's sum - per capita; (100, A)
\* and (50, B) give 150, 75, +25 and -25; three persons divide by three.
C7_Settlement ==
    last.reply = "report" =>
        LET r     == last.report
            n     == Cardinality(PersonsOf(store))
            total == TotalOf(store)
        IN  /\ store # <<>>
            /\ r.total = total
            /\ r.per.den > 0
            /\ r.per.num * n = total * r.per.den
            /\ DOMAIN r.balances = PersonsOf(store)
            /\ \A p \in PersonsOf(store) :
                  /\ r.balances[p].den > 0
                  /\ r.balances[p].num * n
                        = (PersonTotal(store, p) * n - total) * r.balances[p].den
            /\ (Len(store) = 2 /\ AmountsBy(store) = {<<10000, "A">>, <<5000, "B">>}) =>
                  /\ r.total = 15000
                  /\ r.per.num = 7500 * r.per.den
                  /\ r.balances["A"].num = 2500 * r.balances["A"].den
                  /\ r.balances["B"].num = (0 - 2500) * r.balances["B"].den
            /\ n = 3 => r.per.num * 3 = r.total * r.per.den

C7_Witness ==
    /\ last.reply = "report"
    /\ PersonsOf(store) = {"A", "B", "C"}
    /\ last.report.total = 25000
    /\ last.report.per = Rat(25000, 3)

\* C8: in the report a person whose sum exceeds the per capita share is
\* listed as "deve pagar", a person whose sum is below it as "deve receber",
\* each with the absolute value of the difference.
C8_SignConvention ==
    last.reply = "report" =>
        LET n     == Cardinality(PersonsOf(store))
            total == TotalOf(store)
        IN  \A p \in PersonsOf(store) :
              LET b == PersonTotal(store, p) * n - total IN
              /\ b > 0 =>
                    /\ \E l \in last.report.lines :
                          /\ l.person = p /\ l.status = "deve pagar"
                          /\ l.amount.den > 0 /\ l.amount.num * n = b * l.amount.den
                    /\ \A l \in last.report.lines :
                          l.person = p => l.status = "deve pagar"
              /\ b < 0 =>
                    /\ \E l \in last.report.lines :
                          /\ l.person = p /\ l.status = "deve receber"
                          /\ l.amount.den > 0 /\ l.amount.num * n = (0 - b) * l.amount.den
                    /\ \A l \in last.report.lines :
                          l.person = p => l.status = "deve receber"

C8_Witness ==
    /\ last.reply = "report"
    /\ \E l \in last.report.lines :
          l.person = "A" /\ l.status = "deve pagar" /\ l.amount = Rat(5000, 2)
    /\ \E l \in last.report.lines :
          l.person = "B" /\ l.status = "deve receber" /\ l.amount = Rat(5000, 2)

\* C9: /close_month on an empty table answers "nothing recorded": nothing is
\* computed, no chart is drawn or sent, no error is reported and the table
\* stays empty.
C9_EmptyReport ==
    [][(last'.cmd = "close_month" /\ store = <<>>) =>
          /\ last'.reply = "no_expenses"
          /\ ~last'.render /\ ~last'.photo
          /\ last'.report = NoReport
          /\ store' = <<>>]_vars

C9_Witness == last.cmd = "close_month" /\ last.reply = "no_expenses" /\ store = <<>>

\* C10 (as claimed): an amount that is no number, zero or negative keeps the
\* state AMOUNT, a category over 30 characters keeps CATEGORY, a person over
\* 20 characters keeps PERSON, an unparseable date keeps DATE; the collected
\* fields and the table are left as they were.
C10_InvalidNeverAdvances ==
    [][\A u \in Users :
          SentText(u) =>
              /\ (conv[u] = AMOUNT /\ last'.text \in {"abc", "nan", "0", "-5"}) => Stays(u)
              /\ (conv[u] = CATEGORY /\ Len(last'.text) > 30) => Stays(u)
              /\ (conv[u] = PERSON /\ Len(last'.text) > 20) => Stays(u)
              /\ (conv[u] = DATE /\ last'.text \in {"31/02/24", "2/6/2024"}) => Stays(u)]_vars
\* C11 (as claimed): every row of the table has an amount > 0, a category
\* of 1 to 30 characters, a person of 1 to 20 characters and a valid
\* DD/MM/YY date, whichever path stored it.
C11_RowsValid ==
    \A i \in 1..Len(store) :
        /\ ~store[i].amount.null /\ store[i].amount.cents > 0
        /\ Len(store[i].category) \in 1..30
        /\ Len(store[i].person) \in 1..20
        /\ store[i].date \in {"31/05/24", "02/06/24"}

\* the rows of a are rows of b, in the same order
RECURSIVE IsSubSeq(_, _)
IsSubSeq(a, b) ==
    IF a = <<>> THEN TRUE
    ELSE IF b = <<>> THEN FALSE
    ELSE IF Head(a) = Head(b) THEN IsSubSeq(Tail(a), Tail(b))
    ELSE IsSubSeq(a, Tail(b))

\* C12: the table changes only by a DATE or LIST step that is answered
\* "registered" (one row appended, the others as they were), by /clear_all
\* and by /cleanup_old (rows removed, the remaining ones as they were); /add,
\* the mode, amount, category and person steps, refused inputs, /cancel,
\* /start, /help and /close_month leave it as it was.
C12_StoreFrame ==
    [][/\ store' # store =>
            \/ /\ last'.cmd = ""
               /\ conv[last'.u] \in {DATE, LIST}
               /\ last'.reply \in {"saved", "saved_list"}
               /\ Len(store') = Len(store) + 1
               /\ SubSeq(store', 1, Len(store)) = store
            \/ /\ last'.cmd \in {"clear_all", "cleanup_old"}
               /\ Len(store') < Len(store)
               /\ IsSubSeq(store', store)
       /\ last'.cmd \in {"add", "cancel", "start", "help", "close_month"} => store' = store
       /\ (last'.cmd = "" /\ conv[last'.u] \in {NoConv, MODE, AMOUNT, CATEGORY, PERSON}) =>
             store' = store
       /\ last'.reply \in {"bad_date", "bad_list", "error", "usage", "none"} => store' = store
       /\ last'.reply \in {"saved", "saved_list"} => Len(store') = Len(store) + 1
       /\ last'.cmd = "clear_all" => store' = <<>>]_vars

C12_Witness ==
    /\ last.cmd = "cleanup_old" /\ last.reply = "purged"
    /\ Len(store) = 1
    /\ store[1].id = 2
C13_AmountText(cents) == IF cents = 5000 THEN "50.00" ELSE "100"

C13_NoComma(str) == \A k \in 1..Len(str) : SubSeq(str, k, k) # ","

\* row i of the table carries what u1 entered step by step in the session
\* u1 has completed
C13_StepRow(i) ==
    /\ conv["u1"] = NoConv
    /\ user_data["u1"].amount # <<>> /\ user_data["u1"].category # <<>>
    /\ user_data["u1"].person # <<>>
    /\ ~store[i].amount.null
    /\ store[i].amount.cents = user_data["u1"].amount[1].cents
    /\ store[i].category = user_data["u1"].category[1]
    /\ store[i].person = user_data["u1"].person[1]

\* u2, in LIST, sends the four values of row i as one line: one row with the
\* same four values is appended and the conversation of u2 ends
C13_LineStep(i, sep) ==
    LET r == store[i]
        n == Len(store)
    IN  (/\ conv["u2"] = LIST
         /\ SentText("u2")
         /\ last'.text = C13_AmountText(r.amount.cents) \o sep \o r.category \o sep
                            \o r.person \o sep \o r.date)
        => /\ last'.reply = "saved_list"
           /\ conv'["u2"] = NoConv
           /\ Len(store') = n + 1
           /\ SubSeq(store', 1, n) = store
           /\ store'[n + 1].amount = r.amount
           /\ store'[n + 1].category = r.category
           /\ store'[n + 1].person = r.person
           /\ store'[n + 1].date = r.date

\* C13 (as claimed): for ANY four values the step-by-step path accepted, the
\* same values sent as one comma-separated line insert exactly one row with
\* the same four values, and both paths end the conversation.
C13_ListSameAsSteps ==
    [][\A i \in 1..Len(store), sep \in {",", ", "} :
          C13_StepRow(i) => C13_LineStep(i, sep)]_vars

\* C13 (amended): for any four values the step-by-step path accepted, none
\* of which contains a comma, the same values sent as one comma-separated
\* line insert exactly one row with the same four values (the INSERT itself
\* succeeding), and both paths end the conversation.
C13_ListSameAsStepsNoComma ==
    [][\A i \in 1..Len(store), sep \in {",", ", "} :
          (/\ C13_StepRow(i)
           /\ C13_NoComma(store[i].category)
           /\ C13_NoComma(store[i].person)) => C13_LineStep(i, sep)]_vars

C13_Witness ==
    /\ last.u = "u2" /\ last.reply = "saved_list"
    /\ last.text = "50.00, Food, A, 31/05/24"
    /\ conv["u1"] = NoConv /\ conv["u2"] = NoConv
    /\ user_data["u1"].category = <<"Food">> /\ user_data["u1"].person = <<"A">>
    /\ Len(store) = 2
    /\ \A f \in {"amount", "category", "person", "date"} : store[1][f] = store[2][f]
    /\ store[1].amount.cents = 5000
\* the four values participant u types in its own sessions
C14_Own(u) ==
    IF u = "u1"
    THEN [cents |-> 10000, category |-> "Food", person |-> "A", date |-> "31/05/24"]
    ELSE [cents |-> 5000, category |-> "Rent", person |-> "B", date |-> "02/06/24"]

C14_IsOwnRow(r, u) ==
    /\ ~r.amount.null /\ r.amount.cents = C14_Own(u).cents
    /\ r.category = C14_Own(u).category
    /\ r.person = C14_Own(u).person
    /\ r.date = C14_Own(u).date

\* C14: under every interleaving of two participants' messages, an update
\* of one (a step, /cancel or /add) leaves the other's conversation state
\* and collected fields as they were; a completed intake appends exactly one
\* row carrying the values its own participant typed; so the collected
\* fields and the rows never hold a mix of the two participants' values.
C14_SessionsIndependent ==
    /\ [][\A u \in Users :
             last'.u = u =>
                /\ \A v \in Users \ {u} :
                      conv'[v] = conv[v] /\ user_data'[v] = user_data[v]
                /\ last'.reply \in {"saved", "saved_list"} =>
                      /\ Len(store') = Len(store) + 1
                      /\ SubSeq(store', 1, Len(store)) = store
                      /\ C14_IsOwnRow(store'[Len(store')], u)
                /\ last'.reply \notin {"saved", "saved_list"} => store' = store]_vars
    /\ [](\A u \in Users :
             /\ user_data[u].amount # <<>> => user_data[u].amount[1].cents = C14_Own(u).cents
             /\ user_data[u].category # <<>> => user_data[u].category[1] = C14_Own(u).category
             /\ user_data[u].person # <<>> => user_data[u].person[1] = C14_Own(u).person)
    /\ [](\A i \in 1..Len(store) : \E u \in Users : C14_IsOwnRow(store[i], u))

\* both participants went through the steps and completed: two rows, the
\* one of u2 first
C14_Witness ==
    /\ conv["u1"] = NoConv /\ conv["u2"] = NoConv
    /\ user_data["u1"].person = <<"A">> /\ user_data["u2"].person = <<"B">>
    /\ Len(store) = 2
    /\ C14_IsOwnRow(store[1], "u2")
    /\ C14_IsOwnRow(store[2], "u1")
    /\ last.u = "u1" /\ last.reply = "saved"
\* the moves of one conversation: forward by one step, staying, or ending
C15_Moves ==
    {<<NoConv, NoConv>>, <<NoConv, MODE>>,
     <<MODE, MODE>>, <<MODE, AMOUNT>>, <<MODE, LIST>>, <<MODE, NoConv>>,
     <<AMOUNT, AMOUNT>>, <<AMOUNT, CATEGORY>>, <<AMOUNT, NoConv>>,
     <<CATEGORY, CATEGORY>>, <<CATEGORY, PERSON>>, <<CATEGORY, NoConv>>,
     <<PERSON, PERSON>>, <<PERSON, DATE>>, <<PERSON, NoConv>>,
     <<DATE, DATE>>, <<DATE, NoConv>>,
     <<LIST, LIST>>, <<LIST, NoConv>>}

\* C15: a conversation moves only MODE -> AMOUNT -> CATEGORY -> PERSON ->
\* DATE -> end or MODE -> LIST -> end, one step at a time, stays where it
\* is on a refused input, and ends on /cancel: MODE, AMOUNT, CATEGORY and
\* PERSON end only by /cancel, DATE and LIST only by /cancel or the
\* registration.  From MODE a text leads to AMOUNT exactly when it starts
\* with "1", to LIST exactly when it starts with "2", and otherwise stays.
C15_TransitionOrder ==
    [][\A u \in Users :
          /\ <<conv[u], conv'[u]>> \in C15_Moves
          /\ conv'[u] # conv[u] => last'.u = u
          /\ (conv[u] # NoConv /\ conv'[u] = NoConv) =>
                \/ last'.cmd = "cancel"
                \/ /\ conv[u] \in {DATE, LIST}
                   /\ last'.cmd = ""
                   /\ last'.reply \in {"saved", "saved_list"}
          /\ (conv[u] # NoConv /\ conv'[u] \notin {conv[u], NoConv}) => last'.cmd = ""
          /\ last'.reply \in {"bad_mode", "bad_amount", "category_too_long",
                              "name_too_long", "bad_date", "bad_list", "error"} =>
                conv'[u] = conv[u]
          /\ (conv[u] # NoConv /\ last'.u = u /\ last'.cmd = "cancel") => conv'[u] = NoConv
          /\ (conv[u] = MODE /\ SentText(u)) =>
                /\ conv'[u] = AMOUNT <=> SubSeq(last'.text, 1, 1) = "1"
                /\ conv'[u] = LIST <=> SubSeq(last'.text, 1, 1) = "2"
                /\ conv'[u] = MODE <=> SubSeq(last'.text, 1, 1) \notin {"1", "2"}]_vars

C15_Witness ==
    /\ last.cmd = "" /\ last.text = "12" /\ last.reply = "ask_amount"
    /\ conv[last.u] = AMOUNT
    /\ Len(store) = 1
\* the well-formed lines among the list inputs
C16_GoodLines == {"50.00, Food, A, 31/05/24", "100,Food,B,02/06/24"}

C17_Collected(u) ==
    LET d == user_data[u] IN
    /\ conv[u] \in {MODE, AMOUNT, LIST} =>
          d.amount = <<>> /\ d.category = <<>> /\ d.person = <<>>
    /\ conv[u] = CATEGORY => d.amount # <<>> /\ d.category = <<>> /\ d.person = <<>>
    /\ conv[u] = PERSON => d.amount # <<>> /\ d.category # <<>> /\ d.person = <<>>
    /\ conv[u] = DATE => d.amount # <<>> /\ d.category # <<>> /\ d.person # <<>>

\* C17: at CATEGORY the amount has been collected, at PERSON the amount and
\* the category, at DATE all three, and nothing else is held (no field of an
\* earlier conversation); a field changes only by /add, which empties them
\* all, or by the step that accepts it, which stores the text just sent
\* (the amount as a number, category and person as typed).
C17_CollectedFields ==
    /\ [](\A u \in Users : C17_Collected(u))
    /\ [][\A u \in Users :
             LET d == user_data[u]
                 e == user_data'[u]
             IN  /\ e # d => last'.u = u
                 /\ e.amount # d.amount =>
                       \/ last'.cmd = "add" /\ e.amount = <<>>
                       \/ /\ conv[u] = AMOUNT /\ SentText(u)
                          /\ last'.text \in {"100", "50.00", "nan"}
                          /\ e.amount # <<>>
                          /\ last'.text \in {"100", "50.00"} =>
                                e.amount[1].cents = C1_AmountOf[last'.text]
                 /\ e.category # d.category =>
                       \/ last'.cmd = "add" /\ e.category = <<>>
                       \/ conv[u] = CATEGORY /\ SentText(u) /\ e.category = <<last'.text>>
                 /\ e.person # d.person =>
                       \/ last'.cmd = "add" /\ e.person = <<>>
                       \/ conv[u] = PERSON /\ SentText(u) /\ e.person = <<last'.text>>]_vars

\* a second conversation at DATE after a first one was registered
C17_Witness ==
    /\ conv["u1"] = DATE
    /\ user_data["u1"].amount # <<>> /\ user_data["u1"].amount[1].cents = 10000
    /\ user_data["u1"].category = <<"Food">>
    /\ user_data["u1"].person = <<"B">>
    /\ Len(store) = 1
    /\ store[1].person = "A" /\ store[1].amount.cents = 5000
C19_ZeroBalance ==
    last.reply = "report" =>
        LET n     == Cardinality(PersonsOf(store))
            total == TotalOf(store)
        IN  \A p \in PersonsOf(store) :
              PersonTotal(store, p) * n = total =>
                 /\ \E l \in last.report.lines : l.person = p
                 /\ \A l \in last.report.lines :
                       l.person = p =>
                          /\ l.status = "deve receber"
                          /\ l.amount.num = 0 /\ l.amount.den > 0

C19_Witness ==
    /\ last.reply = "report"
    /\ PersonsOf(store) = {"A", "B"}
    /\ PersonTotal(store, "A") = 10000 /\ PersonTotal(store, "B") = 10000
    /\ \E l \in last.report.lines :
          l.person = "A" /\ l.status = "deve receber" /\ l.amount.num = 0

RECURSIVE C20_SumNum(_, _)
C20_SumNum(bal, S) ==
    IF S = {} THEN 0
    ELSE LET p == CHOOSE x \in S : TRUE
         IN  bal[p].num + C20_SumNum(bal, S \ {p})

\* C20: in every report over a non-empty table the balances of all persons
\* add up to zero, every distinct person of the table has exactly one line,
\* and nobody else has one.
C20_BalancesSumToZero ==
    last.reply = "report" =>
        LET ps  == PersonsOf(store)
            bal == last.report.balances
        IN  /\ store # <<>>
            /\ DOMAIN bal = ps
            /\ \A p, q \in ps : bal[p].den > 0 /\ bal[p].den = bal[q].den
            /\ C20_SumNum(bal, ps) = 0
            /\ \A p \in ps : Cardinality({l \in last.report.lines : l.person = p}) = 1
            /\ \A l \in last.report.lines : l.person \in ps
            /\ Cardinality(last.report.lines) = Cardinality(ps)

C20_Witness ==
    /\ last.reply = "report"
    /\ PersonsOf(store) = {"A", "B", "C"}
    /\ last.report.total = 20000
    /\ last.report.balances["A"].num > 0
    /\ last.report.balances["C"].num < 0
====
